---- MODULE Spec2Model ----
(***************************************************************************)
(* A model of the synthetic-financial-data-generator pipeline:             *)
(*   - GeminiClient.generate_text / generate_json  (src/llm/gemini_client) *)
(*   - BaseGenerator._generate_in_batches / _validate_records /            *)
(*     _to_dataframe / add_metadata       (src/generators/base_generator)  *)
(*   - the generate_* methods of the four generators (src/generators)      *)
(*   - the module initialisation and generate_dataset of app.py            *)
(*   - DataExporter and MetricsCalculator (src/utils)                      *)
(* and of the LLM wrappers of the stock dashboard (stockiq/llm_service).   *)
(* Nine specifications share the module:                                   *)
(*   Spec          one _generate_in_batches job, each batch running        *)
(*                 generate_json -> generate_text with its retry loop;     *)
(*   SpecClient    a sequence of direct generate_text calls on one client, *)
(*                 with the wall clock;                                    *)
(*   SpecValidate  _validate_records applied to bounded record lists;      *)
(*   SpecGenerate  one call of a generate_* method of a generator;         *)
(*   SpecApp       the start-up of app.py, then one generate_dataset call; *)
(*   SpecFair      Spec under weak fairness of the job's steps;            *)
(*   SpecExport    one export or export_with_metadata call;                *)
(*   SpecMetrics   calculate_all_metrics applied to bounded DataFrames;    *)
(*   SpecService   one call of a dashboard wrapper.                        *)
(* Time is counted in whole seconds.                                       *)
(***************************************************************************)
EXTENDS Integers, Sequences, FiniteSets, TLC

VARIABLES
    \* ---- GeminiClient (gemini_client.py) --------------------------------
    pc,                 \* control point of the single thread:
                        \*   "idle"    no call in progress (SpecClient)
                        \*   "loop"    top of the for loop of _generate_in_batches
                        \*   "request" in generate_text, about to call the model
                        \*   "done"    _generate_in_batches returned all_records
                        \*   "raised"  _generate_in_batches raised to its caller
                        \*   "returned"  the generator method returned df
                        \*   "generate_raised"  the generator method raised
                        \*   "responded"  generate_dataset returned
    now,                \* time.time(), in seconds
    last_request_time,  \* self.last_request_time
    max_retries,        \* the max_retries argument of the current call
    attempt,            \* the loop variable of generate_text
    call_trace,         \* what the current generate_text call did so far:
                        \* its requests to the model and its backoff sleeps
    call_result,        \* how the last generate_text call ended
    calls,              \* generate_text calls made so far
    issued_at,          \* when the latest request went to the model (-1: never)
    request_gap,        \* seconds between the latest two requests (-1: none)
    \* ---- BaseGenerator._generate_in_batches -----------------------------
    total_records,      \* argument
    batch_size,         \* argument
    prompt_template,    \* argument
    batches,            \* (total_records + batch_size - 1) // batch_size
    i,                  \* the loop variable: batches started before this one
    records_in_batch,   \* the count the current batch asks the LLM for
    all_records,        \* the accumulating result list
    json_calls,         \* invocations of llm_client.generate_json so far
    batch_log,          \* per finished batch: what was asked and what came back
    \* ---- BaseGenerator._validate_records -------------------------------
    records,            \* the argument of _validate_records
    valid_records,      \* its return value
    revalidated,        \* the return value of validating valid_records again
    vpc,                \* "input" | "validated" | "revalidated"
    \* ---- a generator method (generators/*.py) ---------------------------
    method,             \* the generate_* method that runs the job
    df,                 \* the DataFrame it returns
    \* ---- app.py ---------------------------------------------------------
    api_key,            \* settings.gemini_api_key ("" when not configured)
    output_dir_ok,      \* can settings.output_dir be created?
    boot,               \* how far the module initialisation (lines 22-40) got
    constructed,        \* the components constructed so far
    request,            \* the arguments of the generate_dataset call
    status,             \* the status message it returned
    preview,            \* the preview DataFrame it returned
    metrics,            \* the report of metrics_calc.calculate_all_metrics
    sources,            \* what became of the search validation
    exports,            \* the files written by exporter.export
    \* ---- DataExporter (src/utils/data_exporter.py) ----------------------
    epc,                \* where the exporter call is:
                        \*   "idle"     no call made
                        \*   "export"   export entered
                        \*   "writing"  the to_* method of the format runs
                        \*   "data_written"  export returned to
                        \*                   export_with_metadata
                        \*   "returned" | "raised" | "crashed"
    export_call,        \* the method called and its arguments
    export_result,      \* the path returned, or the error raised
    files,              \* the files of output_dir
    written,            \* the files this call wrote, in order
    \* ---- MetricsCalculator (src/utils/metrics_calculator.py) ------------
    mpc,                \* "idle" | "reported"
    mdf,                \* the DataFrame calculate_all_metrics is called with
    report,             \* the dictionary it returns
    \* ---- the dashboard's LLM wrappers (src/stockiq/llm_service.py) ------
    spc,                \* "idle" | "request" | "returned" | "raised"
    service_call,       \* the wrapper called and its arguments
    service_trace,      \* how each request of the call ended, in order
    service_result      \* the tuple the wrapper returned

genVars == <<method, df>>

appVars == <<api_key, output_dir_ok, boot, constructed, request, status,
             preview, metrics, sources, exports>>

valVars == <<records, valid_records, revalidated, vpc>>

clientVars == <<pc, now, last_request_time, max_retries, attempt, call_trace,
                call_result, calls, issued_at, request_gap>>

jobVars == <<total_records, batch_size, prompt_template, batches, i,
             records_in_batch,
             all_records, json_calls, batch_log>>

expVars == <<epc, export_call, export_result, files, written>>

\* The utility classes of src/utils and the dashboard service.
metVars == <<mpc, mdf, report>>

svcVars == <<spc, service_call, service_trace, service_result>>

utilVars == <<expVars, metVars, svcVars>>

vars == <<clientVars, jobVars, valVars, genVars, appVars, utilVars>>

\* What the actions of one component leave alone.
outsideJob == <<valVars, genVars, appVars, utilVars>>
outsideClient == <<jobVars, valVars, genVars, appVars, utilVars>>
outsideValidate == <<clientVars, jobVars, genVars, appVars, utilVars>>
outsideGenerate == <<valVars, appVars, utilVars>>
outsideApp == <<valVars, utilVars>>
outsideExport ==
    <<clientVars, jobVars, valVars, genVars, appVars, metVars, svcVars>>
outsideMetrics ==
    <<clientVars, jobVars, valVars, genVars, appVars, expVars, svcVars>>
outsideService ==
    <<clientVars, jobVars, valVars, genVars, appVars, expVars, metVars>>

(***************************************************************************)
(* Bounds of the model.                                                    *)
(***************************************************************************)
MaxRecords == 3         \* longest record list given to _validate_records
MaxTotalRecords == 3    \* largest total_records of a job
MaxBatchSize == 2       \* largest batch_size of a job
MaxReturned == 2        \* most records the LLM puts in one JSON array
MaxRetriesArg == 3      \* largest max_retries passed to generate_text
MaxCalls == 2           \* generate_text calls made in SpecClient
MaxTime == 8            \* the clock stops being advanced by Elapse here
MaxRows == 5            \* rows of a DataFrame given to the metrics calculator
MaxServiceRetries == 3  \* the largest max_retries given to a dashboard wrapper

(***************************************************************************)
(* Program constants.                                                      *)
(***************************************************************************)
DefaultMaxRetries == 3  \* generate_text(..., max_retries: int = 3)
MaxRecordsSetting == 100000  \* settings.max_records
MinRecords == 10        \* if num_records < 10 ...
PreviewRows == 100      \* df.head(100)
RequestsPerMinute == 60 \* settings.gemini_requests_per_minute

(***************************************************************************)
(* GeminiClient (gemini_client.py).                                        *)
(***************************************************************************)
Min(a, b) == IF a < b THEN a ELSE b

\* min_interval = 60.0 / self.rate_limit
MinInterval == 60 \div RequestsPerMinute

\* _rate_limit: the seconds slept before last_request_time is stamped
RateLimitSleep(t, last) ==
    IF t - last < MinInterval THEN MinInterval - (t - last) ELSE 0

\* time.sleep(2 ** attempt)
BackoffSeconds(a) == 2 ^ a

\* What one model.generate_content call can do, as generate_text sees it:
\* raise, answer with empty text, or answer with a non-empty text.
\* A text is modelled by
\*   json   the JSON in it: "invalid" (none at all), a "scalar", one "object"
\*          (n = 1), or an "array" of n objects;
\*   wrap   what surrounds the JSON: nothing ("bare"), a ```json fence
\*          ("json_fence"), a ``` fence ("plain_fence"), or words with no
\*          fence ("prose");
\*   shape  the keys of the objects, see RecKeys, or "numbers" for an array
\*          of numbers.
NoText == [json |-> "-", n |-> 0, wrap |-> "-", shape |-> "-"]
Text(json, n, wrap, shape) == [json |-> json, n |-> n, wrap |-> wrap, shape |-> shape]
Failure(kind) == [kind |-> kind, text |-> NoText]
TextResponse(t) == [kind |-> "text", text |-> t]

\* A plausible slip: the loop runs once more than max_retries.
LoopContinuesOneMore(a, retries) == a + 1 <= retries

\* for attempt in range(max_retries): is there an iteration after attempt a?
LoopContinues(a, retries) == a + 1 < retries

\* The body of the retry loop, one iteration (lines 70-91): what follows the
\* model's response at attempt a, and the seconds slept before it.
\*   "return"    return response.text
\*   "continue"  go to the next iteration of the for loop, if there is one
\*   "raise"     re-raise the model's exception
HandleResponse(a, retries, response) ==
    IF response.kind = "text" THEN [next |-> "return", sleep |-> 0]
    ELSE IF response.kind = "empty" THEN [next |-> "continue", sleep |-> 0]
    ELSE IF a < retries - 1
         THEN [next |-> "continue", sleep |-> BackoffSeconds(a)]
         ELSE [next |-> "raise", sleep |-> 0]

\* How one iteration of generate_text ends: the loop body, then the for
\* statement, then line 93 when the loop runs out.
\*   "return" | "retry" | "raise" (the model's exception) | "exhausted"
AttemptEnd(a, retries, response) ==
    LET h == HandleResponse(a, retries, response)
    IN  IF h.next = "continue"
        THEN IF LoopContinues(a, retries) THEN "retry" ELSE "exhausted"
        ELSE h.next

RequestEvent(a, response) ==
    [ev |-> "request", attempt |-> a, outcome |-> response.kind,
     text |-> response.text, secs |-> 0]

BackoffEvent(a, s) ==
    [ev |-> "backoff", attempt |-> a, outcome |-> "-", text |-> NoText,
     secs |-> s]

\* call_trace after the response to attempt a has been handled
TraceAfter(trace, a, retries, response) ==
    LET h == HandleResponse(a, retries, response)
    IN  IF h.sleep > 0
        THEN trace \o <<RequestEvent(a, response), BackoffEvent(a, h.sleep)>>
        ELSE Append(trace, RequestEvent(a, response))

NoResult == Failure("none")

\* The time between the request issued at t and the one before it, issued at
\* previous (-1 when there was none before).
GapSince(previous, t) == IF previous = -1 THEN -1 ELSE t - previous

\* The client after __init__: no request made yet (last_request_time = 0),
\* and a clock that is at least min_interval past its origin, as time.time()
\* is.
ClientInit ==
    /\ now = MinInterval
    /\ last_request_time = 0
    /\ max_retries = DefaultMaxRetries
    /\ attempt = 0
    /\ call_trace = <<>>
    /\ call_result = NoResult
    /\ calls = 0
    /\ issued_at = -1
    /\ request_gap = -1

(***************************************************************************)
(* SpecClient: direct generate_text calls on one client.                   *)
(***************************************************************************)
Texts == {Text("array", 1, "bare", "full"), Text("invalid", 0, "bare", "full")}

ClientResponses ==
    {Failure("exception"), Failure("empty")} \cup {TextResponse(t) : t \in Texts}

\* generate_text(prompt, max_retries = retries), up to its first request:
\* _rate_limit(), then the for loop is entered (or, with no iteration to run,
\* line 93 raises at once).
CallGenerateText ==
    /\ pc = "idle"
    /\ calls < MaxCalls
    /\ \E retries \in 0..MaxRetriesArg :
         /\ max_retries' = retries
         /\ pc' = IF retries > 0 THEN "request" ELSE "idle"
         /\ call_result' = IF retries > 0 THEN NoResult ELSE Failure("exhausted")
    /\ now' = now + RateLimitSleep(now, last_request_time)
    /\ last_request_time' = now'
    /\ attempt' = 0
    /\ call_trace' = <<>>
    /\ calls' = calls + 1
    /\ UNCHANGED <<issued_at, request_gap, outsideClient>>

\* One model.generate_content call of generate_text and everything the call
\* does with its outcome, up to the next request or to the end of the call.
ClientRequest ==
    /\ pc = "request"
    /\ \E response \in ClientResponses :
         LET h == HandleResponse(attempt, max_retries, response)
             end == AttemptEnd(attempt, max_retries, response)
         IN  /\ call_trace' = TraceAfter(call_trace, attempt, max_retries, response)
             /\ now' = now + h.sleep
             /\ IF end = "retry"
                THEN /\ attempt' = attempt + 1
                     /\ UNCHANGED <<pc, call_result>>
                ELSE /\ pc' = "idle"
                     /\ call_result' = IF end = "return" THEN response
                                       ELSE Failure(end)
                     /\ UNCHANGED attempt
    /\ issued_at' = now
    /\ request_gap' = GapSince(issued_at, now)
    /\ UNCHANGED <<last_request_time, max_retries, calls, outsideClient>>

\* Time passes, a whole second at a time: before a request goes out, and
\* between calls.  A model that answers within the second takes no time.
Elapse ==
    /\ now < MaxTime
    /\ now' = now + 1
    /\ UNCHANGED <<pc, last_request_time, max_retries, attempt, call_trace,
                   call_result, calls, issued_at, request_gap, outsideClient>>

(***************************************************************************)
(* Records: a record is a dict, modelled as a function from the keys it    *)
(* has to their values.                                                    *)
(***************************************************************************)
Keys == {"ticker", "price", "volume"}
Vals == {1, 2}

AllRecords == UNION {[ks -> Vals] : ks \in SUBSET Keys}

RecordLists == UNION {[1..n -> AllRecords] : n \in 0..MaxRecords}

(***************************************************************************)
(* generate_json and _extract_json (gemini_client.py:95-150).              *)
(***************************************************************************)
\* The keys of the j-th of the n records of a text: with shape "full" every
\* record has every key, with "short_last" the last one lacks "volume".
RecKeys(text, j) ==
    IF text.shape = "short_last" /\ j = text.n THEN Keys \ {"volume"} ELSE Keys

\* The j-th element the LLM wrote in its text for batch b: a record whose
\* values tell where it came from or, with shape "numbers", a JSON number
\* (modelled as a function on "#number", which is no key of any object).
Rec(text, b, j) ==
    IF text.shape = "numbers" THEN [key \in {"#number"} |-> j]
    ELSE [key \in RecKeys(text, j) |-> <<b, j>>]

Parsed(data) == [ok |-> TRUE, error |-> "-", data |-> data]
Raised(error) == [ok |-> FALSE, error |-> error, data |-> <<>>]

\* Lines 134-138: the text between the first ```json (or else the first
\* ```) and the fence that closes it; a text with no fence is left whole.
StripFence(text) ==
    IF text.wrap \in {"json_fence", "plain_fence"}
    THEN [text EXCEPT !.wrap = "bare"]
    ELSE text

\* json.loads: does the text parse?  Words around the JSON make it fail.
JsonLoads(text) ==
    IF text.wrap = "bare" /\ text.json # "invalid" THEN text.json
    ELSE "JSONDecodeError"

\* A plausible slip: any JSON value that is not a list is wrapped in a list.
ExtractJsonWrapsAnyValue(text, b) ==
    LET parsed == JsonLoads(StripFence(text))
    IN  CASE parsed = "JSONDecodeError" -> Raised("JSONDecodeError")
          [] parsed = "array" -> Parsed([j \in 1..text.n |-> Rec(text, b, j)])
          [] OTHER            -> Parsed(<<Rec(text, b, 1)>>)

\* _extract_json: the fences are stripped, json.loads, then a dict becomes a
\* one-element list, a list is returned as it is, anything else raises
\* ValueError.
ExtractJson(text, b) ==
    LET parsed == JsonLoads(StripFence(text))
    IN  CASE parsed = "JSONDecodeError" -> Raised("JSONDecodeError")
          [] parsed = "object" -> Parsed(<<Rec(text, b, 1)>>)
          [] parsed = "array"  -> Parsed([j \in 1..text.n |-> Rec(text, b, j)])
          [] OTHER             -> Raised("ValueError: unexpected JSON type")

\* generate_json after generate_text returned text: a JSONDecodeError
\* becomes ValueError("Invalid JSON in response"), anything else passes.
ParseResponse(text, b) ==
    LET r == ExtractJson(text, b)
    IN  IF ~r.ok /\ r.error = "JSONDecodeError"
        THEN Raised("ValueError: invalid JSON")
        ELSE r

\* generate_json as a whole, given how its generate_text call ended.
GenerateJson(end, response, b) ==
    CASE end = "return"    -> ParseResponse(response.text, b)
      [] end = "raise"     -> Raised("transport")
      [] end = "exhausted" -> Raised("Exception: failed after all retries")

(***************************************************************************)
(* BaseGenerator._generate_in_batches (base_generator.py:51-99).           *)
(***************************************************************************)
\* A plausible slip: floor instead of ceiling.
BatchCountFloor(total, size) == total \div size

\* batches = (total_records + batch_size - 1) // batch_size
BatchCount(total, size) == (total + size - 1) \div size

\* A plausible slip: every batch asks for a full batch_size.
RecordsInBatchAlwaysFull(total, size, collected) == size

\* records_in_batch = min(batch_size, total_records - len(all_records))
RecordsInBatch(total, size, collected) == Min(size, total - Len(collected))

\* A plausible slip: only the invalid-payload error is caught.
BatchCatchesValueError(error) ==
    error \in {"ValueError: invalid JSON", "ValueError: unexpected JSON type"}

\* except Exception as e: every error generate_json raises is an Exception
BatchCatches(error) == TRUE

\* if batch_data: all_records.extend(batch_data)
Extend(collected, batch_data) ==
    IF batch_data # <<>> THEN collected \o batch_data ELSE collected

\* The texts the LLM answers a batch with: bare JSON of every kind and
\* shape, and the same JSON in a fence or among words.
BareTexts ==
    {Text("invalid", 0, "bare", "full"), Text("scalar", 0, "bare", "full"),
     Text("array", 0, "bare", "full"), Text("array", 1, "bare", "numbers")}
      \cup {Text("object", 1, "bare", shape) : shape \in {"full", "short_last"}}
      \cup {Text("array", k, "bare", shape) :
                k \in 1..MaxReturned, shape \in {"full", "short_last"}}

WrappedTexts ==
    {Text("array", 1, wrap, "full") :
        wrap \in {"json_fence", "plain_fence", "prose"}}
      \cup {Text("scalar", 0, "json_fence", "full"),
            Text("invalid", 0, "plain_fence", "full")}

LLMTexts == BareTexts \cup WrappedTexts

JobResponses ==
    {Failure("exception"), Failure("empty")} \cup {TextResponse(t) : t \in LLMTexts}

\* What the model can answer to a prompt of a batch that asks for asked
\* records: any of the above, or an array of just that many records.
BatchResponses(asked) ==
    JobResponses
      \cup {TextResponse(Text("array", asked, "bare", shape)) :
                shape \in IF asked > MaxReturned THEN {"full", "short_last"}
                                                 ELSE {}}

\* A prompt template is modelled by the record count its text holds: the
\* {num_records} placeholder, or a number already written into it.
PlaceholderTemplate == [placeholder |-> TRUE, literal |-> 0]

\* prompt = f"""Generate {num_records} ... records: ...""": the text a
\* generator method builds itself, with the count of the whole job in it.
FStringPrompt(num_records) == [placeholder |-> FALSE, literal |-> num_records]

\* prompt_template.format(num_records=n, **kwargs): the record count the
\* formatted prompt asks for.
FormatPrompt(template, n) ==
    IF template.placeholder THEN n ELSE template.literal

JobInit ==
    /\ total_records \in 1..MaxTotalRecords
    /\ batch_size \in 1..MaxBatchSize
    /\ prompt_template = PlaceholderTemplate
    /\ batches = BatchCount(total_records, batch_size)
    /\ i = 0
    /\ records_in_batch = 0
    /\ all_records = <<>>
    /\ json_calls = 0
    /\ batch_log = <<>>

\* One iteration of the for loop up to the first request of its generate_json
\* call: records_in_batch, the prompt, generate_json -> generate_text ->
\* _rate_limit().
BeginBatch ==
    /\ pc = "loop"
    /\ i < batches
    /\ records_in_batch' = RecordsInBatch(total_records, batch_size, all_records)
    /\ json_calls' = json_calls + 1
    /\ now' = now + RateLimitSleep(now, last_request_time)
    /\ last_request_time' = now'
    /\ max_retries' = DefaultMaxRetries
    /\ attempt' = 0
    /\ call_trace' = <<>>
    /\ call_result' = NoResult
    /\ pc' = "request"
    /\ calls' = calls + 1
    /\ UNCHANGED <<issued_at, request_gap, total_records, batch_size,
                   prompt_template, batches, i, all_records, batch_log,
                   outsideJob>>

\* One model.generate_content call of the batch's generate_text and
\* everything that follows its outcome: a retry, or the end of generate_text,
\* the parse in generate_json, and the rest of the loop iteration.
BatchRequest ==
    /\ pc = "request"
    /\ \E response \in BatchResponses(records_in_batch) :
         LET h == HandleResponse(attempt, max_retries, response)
             end == AttemptEnd(attempt, max_retries, response)
         IN  /\ call_trace' = TraceAfter(call_trace, attempt, max_retries, response)
             /\ now' = now + h.sleep
             /\ IF end = "retry"
                THEN /\ attempt' = attempt + 1
                     /\ UNCHANGED <<pc, call_result, i, all_records, batch_log>>
                ELSE LET r == GenerateJson(end, response, i + 1)
                     IN  /\ call_result' = IF end = "return" THEN response
                                           ELSE Failure(end)
                         /\ batch_log' = Append(batch_log,
                                [asked |-> records_in_batch,
                                 prompted |-> FormatPrompt(prompt_template,
                                                           records_in_batch),
                                 ok |-> r.ok, error |-> r.error,
                                 data |-> r.data])
                         /\ IF r.ok \/ BatchCatches(r.error)
                            THEN /\ all_records' = Extend(all_records, r.data)
                                 /\ i' = i + 1
                                 /\ pc' = "loop"
                            ELSE /\ pc' = "raised"
                                 /\ UNCHANGED <<i, all_records>>
                         /\ UNCHANGED attempt
    /\ issued_at' = now
    /\ request_gap' = GapSince(issued_at, now)
    /\ UNCHANGED <<last_request_time, max_retries, calls, total_records,
                   batch_size, prompt_template, batches, records_in_batch,
                   json_calls, outsideJob>>

\* return all_records
FinishJob ==
    /\ pc = "loop"
    /\ i = batches
    /\ pc' = "done"
    /\ UNCHANGED <<now, last_request_time, max_retries, attempt, call_trace,
                   call_result, calls, issued_at, request_gap, jobVars, outsideJob>>

(***************************************************************************)
(* _validate_records (base_generator.py:101-125).                          *)
(***************************************************************************)
\* A plausible slip: the reference record is taken one position too far.
RequiredFieldsOffByOne(recs) ==
    IF Len(recs) > 1 THEN DOMAIN recs[2]
    ELSE IF Len(recs) = 1 THEN DOMAIN recs[1] ELSE {}

\* required_fields = set(records[0].keys()) if records else set()
RequiredFields(recs) ==
    IF recs # <<>> THEN DOMAIN recs[1] ELSE {}

\* A plausible slip: any() instead of all().
IsValidRecordAny(record, required_fields) ==
    \E key \in required_fields : key \in DOMAIN record

\* all(key in record for key in required_fields)
IsValidRecord(record, required_fields) ==
    \A key \in required_fields : key \in DOMAIN record

ValidateRecords(recs) ==
    IF recs = <<>> THEN <<>>
    ELSE LET required_fields == RequiredFields(recs)
             Keep(record) == IsValidRecord(record, required_fields)
         IN  SelectSeq(recs, Keep)

ValInit ==
    /\ records \in RecordLists
    /\ valid_records = <<>>
    /\ revalidated = <<>>
    /\ vpc = "input"

\* records = self._validate_records(records)
Validate ==
    /\ vpc = "input"
    /\ valid_records' = ValidateRecords(records)
    /\ vpc' = "validated"
    /\ UNCHANGED <<records, revalidated, outsideValidate>>

\* _validate_records applied to a list that is already its own output
Revalidate ==
    /\ vpc = "validated"
    /\ revalidated' = ValidateRecords(valid_records)
    /\ vpc' = "revalidated"
    /\ UNCHANGED <<records, valid_records, outsideValidate>>

(***************************************************************************)
(* DataFrames: the set of column names, and the rows as functions from the  *)
(* column names to values.                                                 *)
(***************************************************************************)
NaN == <<>>

\* pd.DataFrame()
EmptyFrame == [columns |-> {}, rows |-> <<>>]

\* A JSON array element that is a JSON object.
IsDict(element) == DOMAIN element \subseteq Keys

\* records = self._validate_records(records) raises when records[0] has no
\* keys() (AttributeError) or when "key in record" is asked of a record that
\* is no container (TypeError).
ValidateRaises(recs) ==
    /\ recs # <<>>
    /\ \/ ~IsDict(recs[1])
       \/ /\ RequiredFields(recs) # {}
          /\ \E k \in DOMAIN recs : ~IsDict(recs[k])

\* _to_dataframe: no records give pd.DataFrame(); otherwise pd.DataFrame(records)
\* has the union of the records' keys as columns and NaN where a record lacks
\* a key.  (No key of the model has 'date' in its name, so the date
\* conversion of lines 143-148 touches no column.)
ToDataframe(recs) ==
    IF recs = <<>> THEN EmptyFrame
    ELSE LET columns == UNION {DOMAIN recs[k] : k \in DOMAIN recs}
         IN  [columns |-> columns,
              rows |-> [k \in DOMAIN recs |->
                          [col \in columns |->
                              IF col \in DOMAIN recs[k] THEN recs[k][col]
                              ELSE NaN]]]

\* df[col] = value: the column is added, or replaced, in every row.
SetColumn(frame, col, value) ==
    [columns |-> frame.columns \cup {col},
     rows |-> [k \in DOMAIN frame.rows |->
                 [c \in frame.columns \cup {col} |->
                     IF c = col THEN value ELSE frame.rows[k][c]]]]

RECURSIVE SetMetaColumns(_, _, _)
\* for key, value in metadata.items(): df[f"_meta_{key}"] = value
SetMetaColumns(frame, metadata, keys) ==
    IF keys = {} THEN frame
    ELSE LET key == CHOOSE k \in keys : TRUE
         IN  SetMetaColumns(SetColumn(frame, "_meta_" \o key, metadata[key]),
                            metadata, keys \ {key})

\* A plausible slip: the tag columns are written without the _meta_ prefix.
AddMetadataUnprefixed(frame, metadata, domain, t) ==
    LET tagged == [columns |-> frame.columns \cup DOMAIN metadata,
                   rows |-> [k \in DOMAIN frame.rows |->
                               [c \in frame.columns \cup DOMAIN metadata |->
                                   IF c \in DOMAIN metadata THEN metadata[c]
                                   ELSE frame.rows[k][c]]]]
    IN  SetColumn(SetColumn(tagged, "_generated_at", t), "_generator", domain)

\* add_metadata(df, **metadata) of a generator whose self.domain is domain,
\* called at time t.
AddMetadata(frame, metadata, domain, t) ==
    LET tagged == SetMetaColumns(frame, metadata, DOMAIN metadata)
    IN  SetColumn(SetColumn(tagged, "_generated_at", t), "_generator", domain)

(***************************************************************************)
(* The generators (generators/*.py): every generate_* method, with the      *)
(* dataset type that selects it in generate(), the batch_size it passes,   *)
(* whether it builds its prompt itself with an f-string, and the tags it    *)
(* gives to add_metadata.                                                  *)
(***************************************************************************)
Tags(domain) == [is_synthetic |-> TRUE, domain |-> domain]
TagsPiiRemoved(domain) ==
    [is_synthetic |-> TRUE, domain |-> domain, pii_removed |-> TRUE]

Method(generator, dataset_type, size, fstring, metadata) ==
    [generator |-> generator, dataset_type |-> dataset_type,
     batch_size |-> size, fstring |-> fstring, metadata |-> metadata]

CapitalMarketsMethods ==
    {Method("CapitalMarkets", "Stock Prices (OHLCV)", 100, FALSE, Tags("capital_markets")),
     Method("CapitalMarkets", "Securities Master Data", 50, FALSE, Tags("capital_markets")),
     Method("CapitalMarkets", "Trading Volumes", 100, TRUE, Tags("capital_markets")),
     Method("CapitalMarkets", "Corporate Actions", 50, FALSE, Tags("capital_markets")),
     Method("CapitalMarkets", "Market Indices", 100, TRUE, Tags("capital_markets"))}

BankingMethods ==
    {Method("Banking", "Customer Profiles", 100, FALSE, TagsPiiRemoved("banking")),
     Method("Banking", "CASA Accounts", 100, FALSE, Tags("banking")),
     Method("Banking", "Loan Products", 100, FALSE, Tags("banking")),
     Method("Banking", "Transactions", 100, FALSE, Tags("banking")),
     Method("Banking", "Credit Scores", 100, TRUE, Tags("banking"))}

PrivateEquityMethods ==
    {Method("PrivateEquity", "Fund Information", 50, FALSE, Tags("private_equity")),
     Method("PrivateEquity", "Portfolio Companies", 50, FALSE, Tags("private_equity")),
     Method("PrivateEquity", "Deal Metrics", 50, FALSE, Tags("private_equity")),
     Method("PrivateEquity", "Capital Calls & Distributions", 50, TRUE, Tags("private_equity")),
     Method("PrivateEquity", "Valuations", 50, TRUE, Tags("private_equity"))}

VentureCapitalMethods ==
    {Method("VentureCapital", "Startup Profiles", 50, FALSE, Tags("venture_capital")),
     Method("VentureCapital", "Funding Rounds", 50, FALSE, Tags("venture_capital")),
     Method("VentureCapital", "Cap Tables", 50, FALSE, Tags("venture_capital")),
     Method("VentureCapital", "Investor Syndicates", 50, TRUE, Tags("venture_capital")),
     Method("VentureCapital", "Exit Scenarios", 50, TRUE, Tags("venture_capital"))}

Methods ==
    CapitalMarketsMethods \cup BankingMethods \cup PrivateEquityMethods
        \cup VentureCapitalMethods

\* No generator method running.
NoMethod == Method("-", "-", 1, FALSE, Tags("-"))

\* The prompt_template a method hands to _generate_in_batches when it is
\* called with num_records.
MethodPrompt(m, num_records) ==
    IF m.fstring THEN FStringPrompt(num_records) ELSE PlaceholderTemplate

GenIdle == method = NoMethod /\ df = EmptyFrame

\* The record counts generator methods are called with.
GenerateSizes == {10, 51}

\* A generate_* method called with num_records, at its call of
\* _generate_in_batches with its own batch_size.
GenerateInit ==
    /\ method \in Methods
    /\ total_records \in GenerateSizes
    /\ batch_size = method.batch_size
    /\ prompt_template = MethodPrompt(method, total_records)

\* The same job as the customer-profiles method runs it, but with
\* num_records = 25 cut into batches of 10.
ScenarioInit ==
    /\ method = Method("Banking", "Customer Profiles", 10, FALSE, TagsPiiRemoved("banking"))
    /\ total_records = 25
    /\ batch_size = 10
    /\ prompt_template = PlaceholderTemplate

\* The rest of a generate_* method, once _generate_in_batches has returned:
\* _validate_records, _to_dataframe, add_metadata, return df.
ReturnDataset ==
    /\ pc = "done"
    /\ IF ValidateRaises(all_records)
       THEN /\ pc' = "generate_raised"
            /\ UNCHANGED df
       ELSE /\ pc' = "returned"
            /\ df' = AddMetadata(ToDataframe(ValidateRecords(all_records)),
                                 method.metadata, method.generator, now)
    /\ UNCHANGED <<now, last_request_time, max_retries, attempt, call_trace,
                   call_result, calls, issued_at, request_gap, jobVars, method,
                   outsideGenerate>>

(***************************************************************************)
(* Strings, character by character.                                        *)
(***************************************************************************)
LowerLetters == "abcdefghijklmnopqrstuvwxyz"
UpperLetters == "ABCDEFGHIJKLMNOPQRSTUVWXYZ"

\* c.upper() for one character
UpperChar(c) ==
    IF \E k \in 1..26 : SubSeq(LowerLetters, k, k) = c
    THEN LET k == CHOOSE n \in 1..26 : SubSeq(LowerLetters, n, n) = c
         IN  SubSeq(UpperLetters, k, k)
    ELSE c

RECURSIVE Upper(_)
\* str.upper()
Upper(str) ==
    IF str = "" THEN ""
    ELSE UpperChar(SubSeq(str, 1, 1)) \o Upper(SubSeq(str, 2, Len(str)))

RECURSIVE ReplaceSpaces(_)
\* str.replace(' ', '_')
ReplaceSpaces(str) ==
    IF str = "" THEN ""
    ELSE (IF SubSeq(str, 1, 1) = " " THEN "_" ELSE SubSeq(str, 1, 1))
            \o ReplaceSpaces(SubSeq(str, 2, Len(str)))

\* str.startswith(prefix)
StartsWith(str, prefix) ==
    Len(str) >= Len(prefix) /\ SubSeq(str, 1, Len(prefix)) = prefix

(***************************************************************************)
(* app.py: module initialisation (lines 22-40).                            *)
(***************************************************************************)
\* A plausible slip: the key is never found missing.
IsMissingNever(key) == FALSE

\* "not self.gemini_api_key" / "not self.api_key": an unset key is ""
IsMissing(key) == key = ""

Generators ==
    {"CapitalMarketsGenerator", "BankingGenerator", "PrivateEquityGenerator",
     "VentureCapitalGenerator"}

\* Everything lines 27-35 construct.
Components ==
    {"GeminiClient", "DataExporter", "MetricsCalculator", "SearchValidator"}
        \cup Generators

\* settings.validate_api_keys(): raises ValueError without a key; the except
\* clause of line 37 logs and re-raises, which ends the start-up.
ValidateApiKeys ==
    /\ boot = "import"
    /\ boot' = IF IsMissing(api_key) THEN "failed" ELSE "keys_validated"
    /\ UNCHANGED <<api_key, output_dir_ok, constructed, request, status,
                   preview, metrics, sources, exports, clientVars, jobVars,
                   genVars, outsideApp>>

\* settings.create_output_dir(): mkdir raises when the path cannot be made.
CreateOutputDir ==
    /\ boot = "keys_validated"
    /\ boot' = IF output_dir_ok THEN "output_dir_ready" ELSE "failed"
    /\ UNCHANGED <<api_key, output_dir_ok, constructed, request, status,
                   preview, metrics, sources, exports, clientVars, jobVars,
                   genVars, outsideApp>>

\* gemini_client = GeminiClient(): __init__ raises ValueError without a key.
ConstructClient ==
    /\ boot = "output_dir_ready"
    /\ IF IsMissing(api_key)
       THEN boot' = "failed" /\ UNCHANGED constructed
       ELSE boot' = "client_ready" /\ constructed' = {"GeminiClient"}
    /\ UNCHANGED <<api_key, output_dir_ok, request, status, preview, metrics,
                   sources, exports, clientVars, jobVars, genVars, outsideApp>>

\* The four generators, the exporter, the metrics calculator and the search
\* validator; then the module defines generate_dataset and serves it.
ConstructComponents ==
    /\ boot = "client_ready"
    /\ constructed' = Components
    /\ boot' = "serving"
    /\ UNCHANGED <<api_key, output_dir_ok, request, status, preview, metrics,
                   sources, exports, clientVars, jobVars, genVars, outsideApp>>

(***************************************************************************)
(* app.py: generate_dataset (lines 49-157).                                *)
(***************************************************************************)
\* A status message: "level" is its mark (the cross or the tick), "rows" the
\* record count a success message reports.
StatusMessage(level, message, rows) ==
    [level |-> level, message |-> message, rows |-> rows]

NoStatus == StatusMessage("-", "-", 0)
SelectStatus ==
    StatusMessage("error", "Please select domain and dataset type", 0)
RangeStatus ==
    StatusMessage("error", "Number of records must be between 10 and max_records", 0)
NotImplementedStatus ==
    StatusMessage("error", "Generator for domain not yet implemented", 0)
NoDataStatus ==
    StatusMessage("error", "Generation failed - no data produced", 0)
ErrorStatus(exception) == StatusMessage("error", "Error: " \o exception, 0)

\* A plausible slip: the message reports the count that was asked for.
SuccessStatusRequested(frame, r) ==
    StatusMessage("success", "Successfully generated", r.num_records)

\* f"Successfully generated {len(df)} records and exported to ..."
SuccessStatus(frame, r) ==
    StatusMessage("success", "Successfully generated", Len(frame.rows))

\* A plausible slip: only the lower end of the range is checked.
RecordsOutOfRangeBelowOnly(n) == n < MinRecords

\* num_records < 10 or num_records > settings.max_records
RecordsOutOfRange(n) == n < MinRecords \/ n > MaxRecordsSetting

\* Lines 80-84: the status of the early return, NoStatus when there is none.
ValidateInputs(r) ==
    IF r.domain = "" \/ r.dataset_type = "" THEN SelectStatus
    ELSE IF RecordsOutOfRange(r.num_records) THEN RangeStatus
    ELSE NoStatus

\* Lines 88-97: the generator of a domain, "-" when there is none.
SelectGenerator(domain) ==
    CASE domain = "Capital Markets" -> "CapitalMarkets"
      [] domain = "Banking"         -> "Banking"
      [] domain = "Private Equity"  -> "PrivateEquity"
      [] domain = "Venture Capital" -> "VentureCapital"
      [] OTHER                      -> "-"

\* dataset_map.get(dataset_type) in generator.generate: the methods the
\* dataset type selects (one, or none: ValueError "Unknown dataset type").
DatasetMap(generator, dataset_type) ==
    {m \in Methods : m.generator = generator /\ m.dataset_type = dataset_type}

\* A plausible slip: a frame counts as empty only when it has no column.
DfEmptyWhenNoColumns(frame) == frame.columns = {}

\* df.empty: no row or no column
DfEmpty(frame) == frame.rows = <<>> \/ frame.columns = {}

\* df.head(n)
DfHead(frame, n) ==
    [columns |-> frame.columns,
     rows |-> SubSeq(frame.rows, 1, Min(n, Len(frame.rows)))]

\* df.drop(columns=cols, errors='ignore')
DropColumns(frame, cols) ==
    [columns |-> frame.columns \ cols,
     rows |-> [k \in DOMAIN frame.rows |->
                 [c \in frame.columns \ cols |-> frame.rows[k][c]]]]

\* Lines 143-147: the first 100 rows, without the columns whose name starts
\* with '_meta_' or with '_generated'.
Preview(frame) ==
    LET df_preview == DfHead(frame, PreviewRows)
        meta_cols == {col \in df_preview.columns :
                        StartsWith(col, "_meta_") \/ StartsWith(col, "_generated")}
    IN  DropColumns(df_preview, meta_cols)

\* metrics_calc.calculate_all_metrics(df), by its 'basic' section.  pandas
\* is taken to compute every statistic the calculator asks of it.
NoMetrics == [total_records |-> -1, total_columns |-> -1]
CalculateAllMetrics(frame) ==
    [total_records |-> Len(frame.rows),
     total_columns |-> Cardinality(frame.columns)]

\* exporter.export: export_map, by the extension each to_* method writes.
ExportMap ==
    [CSV |-> ".csv", JSON |-> ".json", XML |-> ".xml", PARQUET |-> ".parquet",
     EXCEL |-> ".xlsx"]

\* A plausible slip: an exact match of the format name.
ExportRaisesCaseSensitive(format_type) == format_type \notin DOMAIN ExportMap

\* export_map.get(format_type.upper()) finds no function
ExportRaises(format_type) == Upper(format_type) \notin DOMAIN ExportMap

\* The file export writes: its name and what it holds.
ExportedFile(frame, filename, format_type) ==
    [name |-> filename \o ExportMap[Upper(format_type)],
     rows |-> Len(frame.rows), columns |-> frame.columns]

\* f"{domain.replace(' ', '_')}_{dataset_type.replace(' ', '_')}_{timestamp}"
Filename(r, t) ==
    ReplaceSpaces(r.domain) \o "_" \o ReplaceSpaces(r.dataset_type) \o "_"
        \o ToString(t)

NoRequest ==
    [domain |-> "-", dataset_type |-> "-", num_records |-> 0,
     format_type |-> "-", include_validation |-> FALSE]

\* The calls made of generate_dataset.
Requests ==
    [domain : {"", "Capital Markets", "Banking", "Private Equity",
               "Venture Capital", "Insurance"},
     dataset_type : {"", "Customer Profiles", "Valuations"},
     num_records : {5, 10, 60, 100001},
     format_type : {"parquet", "YAML"},
     include_validation : BOOLEAN]

\* generate_dataset from its call to the first request of the first batch:
\* the early returns, generator.generate, the generate_* method up to its
\* _generate_in_batches call.
SubmitRequest ==
    /\ boot = "serving"
    /\ pc = "idle"
    /\ \E r \in Requests :
         LET early == ValidateInputs(r)
             generator == SelectGenerator(r.domain)
             found == DatasetMap(generator, r.dataset_type)
             rejected == IF early # NoStatus THEN early
                         ELSE IF generator = "-" THEN NotImplementedStatus
                         ELSE IF found = {} THEN ErrorStatus("Unknown dataset type")
                         ELSE NoStatus
         IN  /\ request' = r
             /\ IF rejected # NoStatus
                THEN /\ pc' = "responded"
                     /\ status' = rejected
                     /\ UNCHANGED <<jobVars, method>>
                ELSE LET m == CHOOSE one \in found : TRUE
                     IN  /\ pc' = "loop"
                         /\ method' = m
                         /\ total_records' = r.num_records
                         /\ batch_size' = m.batch_size
                         /\ prompt_template' = MethodPrompt(m, r.num_records)
                         /\ batches' = BatchCount(r.num_records, m.batch_size)
                         /\ i' = 0
                         /\ all_records' = <<>>
                         /\ UNCHANGED <<status, records_in_batch, json_calls,
                                        batch_log>>
    /\ UNCHANGED <<now, last_request_time, max_retries, attempt, call_trace,
                   call_result, calls, issued_at, request_gap, df, api_key,
                   output_dir_ok, boot, constructed, preview, metrics, sources,
                   exports, outsideApp>>

\* The rest of generate_dataset, from the return (or the exception) of
\* generator.generate to its own return.
CompleteRequest ==
    /\ pc \in {"returned", "generate_raised"}
    /\ pc' = "responded"
    /\ IF pc = "generate_raised"
       THEN /\ status' = ErrorStatus("AttributeError")
            /\ UNCHANGED <<preview, metrics, sources, exports>>
       ELSE IF DfEmpty(df)
       THEN /\ status' = NoDataStatus
            /\ UNCHANGED <<preview, metrics, sources, exports>>
       ELSE /\ metrics' = CalculateAllMetrics(df)
            /\ IF request.include_validation
               THEN sources' \in {"sources", "Search validation unavailable"}
               ELSE sources' = "Search validation was not requested"
            /\ IF ExportRaises(request.format_type)
               THEN /\ status' = ErrorStatus("Unsupported format")
                    /\ UNCHANGED <<preview, exports>>
               ELSE /\ exports' = exports \cup
                          {ExportedFile(df, Filename(request, now),
                                        request.format_type)}
                    /\ preview' = Preview(df)
                    /\ status' = SuccessStatus(df, request)
    /\ UNCHANGED <<now, last_request_time, max_retries, attempt, call_trace,
                   call_result, calls, issued_at, request_gap, jobVars,
                   genVars, api_key, output_dir_ok, boot, constructed, request,
                   outsideApp>>

(***************************************************************************)
(* DataExporter.export and export_with_metadata (data_exporter.py).        *)
(***************************************************************************)
\* The format names export is called with.
ExportFormats ==
    {"csv", "CSV", "Json", "xml", "Parquet", "EXCEL", "excel", "yaml", "",
     "xlsx", "csv "}

ExportFilenames == {"data", "data_metadata"}

ExportOps == {"export", "export_with_metadata"}

NoExport == [op |-> "-", filename |-> "-", format_type |-> "-"]

\* A file of output_dir: whole, or cut short by a failed write.
File(name, whole) == [name |-> name, whole |-> whole]

\* f"{filename}.csv" .. f"{filename}.xlsx"
DataName(c) == c.filename \o ExportMap[Upper(c.format_type)]

\* f"{filename}_metadata.json"
MetadataName(c) == c.filename \o "_metadata.json"

\* self.output_dir / name
Path(name) == "output/" \o name

\* Writing a file replaces the file of that name.
WriteFile(fs, name, whole) ==
    {f \in fs : f.name # name} \cup {File(name, whole)}

\* How a write ends: the file is written, the writer raises before it
\* opened the file, or it raises with the file cut short.
WriteOutcomes == {"written", "failed", "failed_partial"}

\* A plausible slip: the metadata is written before export has returned.
MetadataDueWhileWriting(position) == position \in {"writing", "data_written"}

\* export_with_metadata writes the metadata after self.export returned.
MetadataDue(position) == position = "data_written"

\* Where a call stands once the to_* method returned.
AfterData(op) == IF op = "export" THEN "returned" ELSE "data_written"

ExpIdle ==
    /\ epc = "idle"
    /\ export_call = NoExport
    /\ export_result = "-"
    /\ files = {}
    /\ written = <<>>

\* output_dir may hold the files of earlier calls.
ExpInit ==
    /\ epc = "idle"
    /\ export_call = NoExport
    /\ export_result = "-"
    /\ files \in SUBSET {File("data.csv", TRUE),
                         File("data_metadata.json", TRUE)}
    /\ written = <<>>

CallExport ==
    /\ epc = "idle"
    /\ \E op \in ExportOps, filename \in ExportFilenames,
          format_type \in ExportFormats :
         export_call' = [op |-> op, filename |-> filename,
                         format_type |-> format_type]
    /\ epc' = "export"
    /\ UNCHANGED <<export_result, files, written, outsideExport>>

\* export, lines 44-58: the look-up of the format.
ExportLookup ==
    /\ epc = "export"
    /\ IF ExportRaises(export_call.format_type)
       THEN /\ epc' = "raised"
            /\ export_result' = "ValueError: Unsupported format: "
                                    \o Upper(export_call.format_type)
       ELSE /\ epc' = "writing"
            /\ UNCHANGED export_result
    /\ UNCHANGED <<export_call, files, written, outsideExport>>

\* export, line 59: export_func(df, filename, **kwargs) and the return.
WriteData ==
    /\ epc = "writing"
    /\ \E outcome \in WriteOutcomes :
         LET name == DataName(export_call)
         IN  /\ epc' = IF outcome = "written" THEN AfterData(export_call.op)
                       ELSE "raised"
             /\ export_result' =
                  IF outcome # "written" THEN "writer error"
                  ELSE IF export_call.op = "export" THEN Path(name)
                  ELSE export_result
             /\ IF outcome = "failed"
                THEN UNCHANGED <<files, written>>
                ELSE /\ files' = WriteFile(files, name, outcome = "written")
                     /\ written' =
                          Append(written, File(name, outcome = "written"))
    /\ UNCHANGED <<export_call, outsideExport>>

\* export_with_metadata, lines 214-218.
WriteMetadata ==
    /\ MetadataDue(epc)
    /\ export_call.op = "export_with_metadata"
    /\ \E outcome \in WriteOutcomes :
         LET name == MetadataName(export_call)
         IN  /\ epc' = IF outcome = "written" THEN "returned" ELSE "raised"
             /\ export_result' =
                  IF outcome = "written" THEN Path(DataName(export_call))
                  ELSE "writer error"
             /\ IF outcome = "failed"
                THEN UNCHANGED <<files, written>>
                ELSE /\ files' = WriteFile(files, name, outcome = "written")
                     /\ written' =
                          Append(written, File(name, outcome = "written"))
    /\ UNCHANGED <<export_call, outsideExport>>

\* The process is killed between two steps of the call.
ExportCrash ==
    /\ epc \in {"export", "writing", "data_written"}
    /\ epc' = "crashed"
    /\ UNCHANGED <<export_call, export_result, files, written, outsideExport>>

(***************************************************************************)
(* MetricsCalculator (metrics_calculator.py).  A DataFrame is a row count  *)
(* and its columns; a column is its dtype and one cell per row.            *)
(* Percentages are rounded to two decimals by the code and are kept in     *)
(* hundredths of a percent: 100.0 is 10000.                                *)
(***************************************************************************)
NumericValues == {1, 9}
ObjectValues == {"x"}

NumericCells ==
    {[null |-> TRUE, v |-> 0]}
        \cup {[null |-> FALSE, v |-> x] : x \in NumericValues}

ObjectCells ==
    {[null |-> TRUE, v |-> ""]}
        \cup {[null |-> FALSE, v |-> x] : x \in ObjectValues}

HasNull(cells) == \E k \in DOMAIN cells : cells[k].null

\* pandas holds integers as int64, and as float64 once a value is missing.
NumericColumn(cells) ==
    [dtype |-> IF cells = <<>> THEN "object"
               ELSE IF HasNull(cells) THEN "float64" ELSE "int64",
     cells |-> cells]

ObjectColumn(cells) == [dtype |-> "object", cells |-> cells]

MetricColumns == {"amount", "name"}

\* The DataFrame of n rows with the columns named in has: amount holds the
\* numeric cells, name the object cells.
Frame(n, has, amount, name) ==
    [rows |-> n,
     cols |-> [c \in has |->
                 IF c = "amount" THEN NumericColumn(amount)
                 ELSE ObjectColumn(name)]]

\* df[col].dropna()
DropNa(column) ==
    LET kept == SelectSeq(column.cells, LAMBDA cell : ~cell.null)
    IN  [k \in DOMAIN kept |-> kept[k].v]

\* df[col].count()
Count(column) == Len(DropNa(column))

\* round(x, 2) of x = 100 * num / den, in hundredths: the nearest integer
\* to 10000 * num / den, the even one of two equally near.
RoundHalfEven(num, den) ==
    LET q == num \div den
        r == num % den
    IN  IF 2 * r < den THEN q
        ELSE IF 2 * r > den THEN q + 1
        ELSE IF q % 2 = 0 THEN q ELSE q + 1

\* A plausible slip: the percentage is cut off after two decimals.
PctFloor(part, total) == (part * 10000) \div total

\* round((part / total) * 100, 2)
Pct(part, total) == RoundHalfEven(part * 10000, total)

RECURSIVE SumOver(_, _)
\* The sum of count[c] over the columns c of cols.
SumOver(cols, count) ==
    IF cols = {} THEN 0
    ELSE LET c == CHOOSE x \in cols : TRUE
         IN  count[c] + SumOver(cols \ {c}, count)

\* calculate_completeness
CalculateCompleteness(frame) ==
    LET columns == DOMAIN frame.cols
        total_cells == frame.rows * Cardinality(columns)
        null_cells ==
            SumOver(columns,
                    [c \in columns |-> frame.rows - Count(frame.cols[c])])
        total == frame.rows
    IN  [overall_completeness_pct |->
             IF total_cells > 0
             THEN Pct(total_cells - null_cells, total_cells) ELSE 0,
         total_null_cells |-> null_cells,
         by_column |->
             [c \in columns |->
                 [completeness_pct |->
                      IF total > 0 THEN Pct(Count(frame.cols[c]), total)
                      ELSE 0,
                  null_count |-> total - Count(frame.cols[c])]]]

\* df[col].nunique(): the distinct values, the missing ones left out
NUnique(column) ==
    LET values == DropNa(column)
    IN  Cardinality({values[k] : k \in DOMAIN values})

\* df.duplicated().sum(): the rows equal to an earlier row
DuplicateRows(frame) ==
    LET row(k) == [c \in DOMAIN frame.cols |-> frame.cols[c].cells[k]]
    IN  Cardinality({k \in 1..frame.rows :
                        \E j \in 1..(k - 1) : row(j) = row(k)})

\* calculate_uniqueness
CalculateUniqueness(frame) ==
    LET total == frame.rows
    IN  [by_column |->
             [c \in DOMAIN frame.cols |->
                 LET unique == NUnique(frame.cols[c])
                 IN  [unique_count |-> unique,
                      duplicate_count |-> total - unique,
                      uniqueness_pct |->
                          IF total > 0 THEN Pct(unique, total) ELSE 0]],
         duplicate_rows |-> DuplicateRows(frame)]

RECURSIVE Sorted(_)
\* The values in ascending order.
Sorted(values) ==
    IF values = <<>> THEN <<>>
    ELSE LET k == CHOOSE x \in DOMAIN values :
                      \A y \in DOMAIN values : values[x] <= values[y]
             rest == [j \in 1..(Len(values) - 1) |->
                         IF j < k THEN values[j] ELSE values[j + 1]]
         IN  <<values[k]>> \o Sorted(rest)

\* Four times col_data.quantile(quarters / 4), by linear interpolation
\* between the two nearest order statistics (the pandas default).
Quantile4(values, quarters) ==
    LET sorted == Sorted(values)
        h == quarters * (Len(values) - 1)
        lo == h \div 4
        rem == h % 4
    IN  IF rem = 0 THEN 4 * sorted[lo + 1]
        ELSE 4 * sorted[lo + 1] + rem * (sorted[lo + 2] - sorted[lo + 1])

\* A plausible slip: a value on a fence counts as an outlier.
IsOutlierInclusive(value, q1x4, q3x4) ==
    LET iqr == q3x4 - q1x4
    IN  4 * value <= q1x4 - 3 * iqr \/ 4 * value >= q3x4 + 3 * iqr

\* (col_data < lower_bound) | (col_data > upper_bound), all times four
IsOutlier(value, q1x4, q3x4) ==
    LET iqr == q3x4 - q1x4
    IN  4 * value < q1x4 - 3 * iqr \/ 4 * value > q3x4 + 3 * iqr

\* A plausible slip: no dtype is taken as numeric.
IsNumericDtypeNever(dtype) == FALSE

\* pd.api.types.is_numeric_dtype
IsNumericDtype(dtype) == dtype \in {"int64", "float64"}

\* The entry of one column in calculate_validity.
ValidityEntry(column) ==
    LET col_data == DropNa(column)
    IN  IF Len(col_data) = 0
        THEN [data_type |-> column.dtype, valid_pct |-> 0]
        ELSE IF IsNumericDtype(column.dtype)
        THEN LET q1x4 == Quantile4(col_data, 1)
                 q3x4 == Quantile4(col_data, 3)
                 outliers ==
                     Cardinality({k \in DOMAIN col_data :
                                     IsOutlier(col_data[k], q1x4, q3x4)})
             IN  [data_type |-> column.dtype, valid_pct |-> 10000,
                  outlier_count |-> outliers,
                  outlier_pct |-> Pct(outliers, Len(col_data))]
        ELSE [data_type |-> column.dtype, valid_pct |-> 10000]

\* calculate_validity
CalculateValidity(frame) ==
    [by_column |-> [c \in DOMAIN frame.cols |-> ValidityEntry(frame.cols[c])]]

\* A plausible slip: only the numeric columns are summarised.
HasDistributionNumericOnly(column) ==
    Count(column) > 0 /\ IsNumericDtype(column.dtype)

\* calculate_distributions skips a column without values (lines 129-130).
HasDistribution(column) == Count(column) > 0

\* The entry of one column in calculate_distributions: of the numeric
\* statistics the extremes and the quartiles (times four), of the
\* categorical ones the number of distinct values.  The model has no
\* datetime column.
DistributionEntry(column) ==
    LET col_data == DropNa(column)
        sorted == Sorted(col_data)
    IN  IF IsNumericDtype(column.dtype)
        THEN [min |-> sorted[1], max |-> sorted[Len(sorted)],
              q25 |-> Quantile4(col_data, 1), q75 |-> Quantile4(col_data, 3)]
        ELSE [unique_count |-> NUnique(column)]

\* calculate_distributions
CalculateDistributions(frame) ==
    LET described == {c \in DOMAIN frame.cols : HasDistribution(frame.cols[c])}
    IN  [c \in described |-> DistributionEntry(frame.cols[c])]

\* calculate_all_metrics, the sections after 'basic'
MetricsReport(frame) ==
    [completeness |-> CalculateCompleteness(frame),
     uniqueness |-> CalculateUniqueness(frame),
     validity |-> CalculateValidity(frame),
     distribution |-> CalculateDistributions(frame)]

NoFrame == [rows |-> 0, cols |-> <<>>]

NoReport == [completeness |-> "-"]

MetIdle ==
    /\ mpc = "idle"
    /\ mdf = NoFrame
    /\ report = NoReport

\* DataFrames of up to MaxRows rows.
MetInit ==
    /\ mpc = "idle"
    /\ \E n \in 0..MaxRows, has \in SUBSET MetricColumns :
         \E amount \in (IF "amount" \in has THEN [1..n -> NumericCells]
                         ELSE {<<>>}),
            name \in (IF "name" \in has THEN [1..n -> ObjectCells]
                       ELSE {<<>>}) :
             mdf = Frame(n, has, amount, name)
    /\ report = NoReport

\* metrics_calc.calculate_all_metrics(df)
CalculateMetrics ==
    /\ mpc = "idle"
    /\ mpc' = "reported"
    /\ report' = MetricsReport(mdf)
    /\ UNCHANGED <<mdf, outsideMetrics>>

(***************************************************************************)
(* The dashboard's LLM wrappers generate_llm_response and                  *)
(* extract_structured_data (stockiq/llm_service.py).                       *)
(***************************************************************************)
Wrappers == {"generate_llm_response", "extract_structured_data"}

\* What client.models.generate_content does in one attempt: it returns a
\* response whose text is JSON, JSON in a ```json fence, JSON in a plain
\* fence, prose, or None; or it raises APIError or another exception.
ServiceOutcomes ==
    {"json", "json_fence", "plain_fence", "prose", "no_text", "APIError",
     "ConnectionError"}

\* _extract_sources(response)
ServiceSources == {<<>>, <<"https://a.example">>}

\* What the body of the inner try raises, "" when it reaches its return.
\* generate_llm_response: response.text + source_note (TypeError on None).
\* extract_structured_data: response.text.strip() (AttributeError on
\* None), the removal of a leading ```json and a trailing ```, json.loads.
AttemptError(fn, outcome) ==
    IF outcome \in {"APIError", "ConnectionError"} THEN outcome
    ELSE IF fn = "generate_llm_response"
    THEN (IF outcome = "no_text" THEN "TypeError" ELSE "")
    ELSE IF outcome = "no_text" THEN "AttributeError"
    ELSE IF outcome \in {"json", "json_fence"} THEN ""
    ELSE "JSONDecodeError"

\* The value of a successful attempt.
AttemptValue(fn, outcome) ==
    IF fn = "generate_llm_response" THEN "text and source note" ELSE "data"

\* The fallback tuples.
Fallback(value) == [ok |-> FALSE, value |-> value, sources |-> <<>>]

NoClientFallback(fn) ==
    Fallback(IF fn = "generate_llm_response"
             THEN "LLM Client failed to initialize. Check API key."
             ELSE "None")

ApiErrorFallback(fn) ==
    Fallback(IF fn = "generate_llm_response"
             THEN "Analysis could not be generated due to a persistent API error."
             ELSE "None")

RetriesFallback(fn) ==
    Fallback(IF fn = "generate_llm_response"
             THEN "Analysis failed to generate after multiple retries."
             ELSE "None")

CriticalFallback(fn) ==
    Fallback(IF fn = "generate_llm_response"
             THEN "Analysis failed due to a critical setup error."
             ELSE "None")

\* A plausible slip: the outer handler catches the API error only.
OuterCatchesApiErrorOnly(error) == error = "APIError"

\* except Exception as e (lines 91 and 147)
OuterCatches(error) ==
    error \in {"APIError", "ConnectionError", "TypeError", "AttributeError",
               "JSONDecodeError"}

\* A plausible slip: the loop makes one attempt more.
LoopEndsOneLater(attempts, retries) == attempts > retries

\* for attempt in range(max_retries): no attempt is left
LoopEnds(attempts, retries) == attempts >= retries

NoServiceCall ==
    [fn |-> "-", client |-> FALSE, max_retries |-> 0, is_int |-> TRUE]

NoServiceResult == [ok |-> FALSE, value |-> "-", sources |-> <<>>]

SvcIdle ==
    /\ spc = "idle"
    /\ service_call = NoServiceCall
    /\ service_trace = <<>>
    /\ service_result = NoServiceResult

\* The call of a wrapper up to its first request: the client test, and
\* range(max_retries), which raises TypeError when max_retries is no integer.
CallService ==
    /\ spc = "idle"
    /\ \E fn \in Wrappers, client \in BOOLEAN,
          max_retries_arg \in 0..MaxServiceRetries, is_int \in BOOLEAN :
         /\ service_call' = [fn |-> fn, client |-> client,
                             max_retries |-> max_retries_arg,
                             is_int |-> is_int]
         /\ IF ~client
            THEN /\ spc' = "returned"
                 /\ service_result' = NoClientFallback(fn)
            ELSE IF ~is_int
            THEN IF OuterCatches("TypeError")
                 THEN /\ spc' = "returned"
                      /\ service_result' = CriticalFallback(fn)
                 ELSE /\ spc' = "raised"
                      /\ UNCHANGED service_result
            ELSE IF LoopEnds(0, max_retries_arg)
            THEN /\ spc' = "returned"
                 /\ service_result' = RetriesFallback(fn)
            ELSE /\ spc' = "request"
                 /\ UNCHANGED service_result
    /\ UNCHANGED <<service_trace, outsideService>>

\* One attempt of the retry loop: the request, the handling of its response
\* or exception, the sleep, and the return once no attempt is left.
ServiceRequest ==
    /\ spc = "request"
    /\ \E outcome \in ServiceOutcomes, found \in ServiceSources :
         LET fn == service_call.fn
             retries == service_call.max_retries
             tried == Len(service_trace)
             error == AttemptError(fn, outcome)
         IN  /\ service_trace' = Append(service_trace, outcome)
             /\ IF error = ""
                THEN /\ spc' = "returned"
                     /\ service_result' =
                          [ok |-> TRUE, value |-> AttemptValue(fn, outcome),
                           sources |-> found]
                ELSE IF error = "APIError" /\ ~(tried < retries - 1)
                THEN /\ spc' = "returned"
                     /\ service_result' = ApiErrorFallback(fn)
                ELSE IF LoopEnds(tried + 1, retries)
                THEN /\ spc' = "returned"
                     /\ service_result' = RetriesFallback(fn)
                ELSE /\ spc' = "request"
                     /\ UNCHANGED service_result
    /\ UNCHANGED <<service_call, outsideService>>

\* The application started, no generate_dataset call made.
AppIdle ==
    /\ api_key = "key"
    /\ output_dir_ok = TRUE
    /\ boot = "serving"
    /\ constructed = Components
    /\ request = NoRequest
    /\ status = NoStatus
    /\ preview = EmptyFrame
    /\ metrics = NoMetrics
    /\ sources = ""
    /\ exports = {}

AppInit ==
    /\ api_key \in {"", "key"}
    /\ output_dir_ok \in BOOLEAN
    /\ boot = "import"
    /\ constructed = {}
    /\ request = NoRequest
    /\ status = NoStatus
    /\ preview = EmptyFrame
    /\ metrics = NoMetrics
    /\ sources = ""
    /\ exports = {}

\* No validation in progress.
ValIdle ==
    /\ records = <<>>
    /\ valid_records = <<>>
    /\ revalidated = <<>>
    /\ vpc = "input"

\* No call of a utility class in progress.
UtilIdle == ExpIdle /\ MetIdle /\ SvcIdle

\* No job in progress.
JobIdle ==
    /\ total_records = 1
    /\ batch_size = 1
    /\ prompt_template = PlaceholderTemplate
    /\ batches = 1
    /\ i = 0
    /\ records_in_batch = 0
    /\ all_records = <<>>
    /\ json_calls = 0
    /\ batch_log = <<>>

(***************************************************************************)
(* The specifications.                                                     *)
(***************************************************************************)
Init ==
    /\ pc = "loop" /\ ClientInit /\ JobInit /\ ValIdle /\ GenIdle /\ AppIdle
    /\ UtilIdle
Next == BeginBatch \/ BatchRequest \/ FinishJob
Spec == Init /\ [][Next]_vars

\* The job under fairness: the interpreter takes the next step of the loop,
\* every sleep ends, and every request to the model returns or raises.  Jobs
\* of up to MaxFairBatches batches.
MaxFairBatches == 2
InitFair == Init /\ batches <= MaxFairBatches
SpecFair == InitFair /\ [][Next]_vars /\ WF_vars(Next)

InitClient ==
    /\ pc = "idle" /\ ClientInit /\ JobIdle /\ ValIdle /\ GenIdle /\ AppIdle
    /\ UtilIdle
NextClient == CallGenerateText \/ ClientRequest \/ Elapse
SpecClient == InitClient /\ [][NextClient]_vars

InitValidate ==
    /\ pc = "idle" /\ ClientInit /\ JobIdle /\ ValInit /\ GenIdle /\ AppIdle
    /\ UtilIdle
NextValidate == Validate \/ Revalidate
SpecValidate == InitValidate /\ [][NextValidate]_vars

InitGenerate ==
    /\ pc = "loop"
    /\ ClientInit
    /\ ValIdle
    /\ GenerateInit \/ ScenarioInit
    /\ batches = BatchCount(total_records, batch_size)
    /\ i = 0
    /\ records_in_batch = 0
    /\ all_records = <<>>
    /\ json_calls = 0
    /\ batch_log = <<>>
    /\ df = EmptyFrame
    /\ AppIdle
    /\ UtilIdle
NextGenerate == BeginBatch \/ BatchRequest \/ FinishJob \/ ReturnDataset
SpecGenerate == InitGenerate /\ [][NextGenerate]_vars

InitApp ==
    /\ pc = "idle" /\ ClientInit /\ JobIdle /\ ValIdle /\ GenIdle /\ AppInit
    /\ UtilIdle
NextApp ==
    \/ ValidateApiKeys
    \/ CreateOutputDir
    \/ ConstructClient
    \/ ConstructComponents
    \/ SubmitRequest
    \/ BeginBatch
    \/ BatchRequest
    \/ FinishJob
    \/ ReturnDataset
    \/ CompleteRequest
SpecApp == InitApp /\ [][NextApp]_vars

InitExport ==
    /\ pc = "idle" /\ ClientInit /\ JobIdle /\ ValIdle /\ GenIdle /\ AppIdle
    /\ ExpInit
    /\ MetIdle
    /\ SvcIdle
NextExport ==
    CallExport \/ ExportLookup \/ WriteData \/ WriteMetadata \/ ExportCrash
SpecExport == InitExport /\ [][NextExport]_vars

InitMetrics ==
    /\ pc = "idle" /\ ClientInit /\ JobIdle /\ ValIdle /\ GenIdle /\ AppIdle
    /\ ExpIdle
    /\ MetInit
    /\ SvcIdle
NextMetrics == CalculateMetrics
SpecMetrics == InitMetrics /\ [][NextMetrics]_vars

InitService ==
    /\ pc = "idle" /\ ClientInit /\ JobIdle /\ ValIdle /\ GenIdle /\ AppIdle
    /\ ExpIdle
    /\ MetIdle
    /\ SvcIdle
NextService == CallService \/ ServiceRequest
SpecService == InitService /\ [][NextService]_vars

(***************************************************************************)
(* Properties of _validate_records, checked under SpecValidate.            *)
(***************************************************************************)
Validated == vpc # "input"

\* The list recs without its p-th element.
Without(recs, p) ==
    [k \in 1..(Len(recs) - 1) |-> IF k < p THEN recs[k] ELSE recs[k + 1]]

\* Record p lacks exactly one key, which the two other records (alike in
\* their key set) both have.
OneMissingAt(p) ==
    /\ Len(records) = 3
    /\ \E key \in Keys :
         /\ key \notin DOMAIN records[p]
         /\ \A q \in (1..3) \ {p} :
              /\ key \in DOMAIN records[q]
              /\ DOMAIN records[q] \ {key} = DOMAIN records[p]

IsTestInput ==
    /\ Len(records) = 3
    /\ DOMAIN records[1] = {"ticker", "price"}
    /\ DOMAIN records[2] = {"ticker"}
    /\ DOMAIN records[3] = {"ticker", "price"}

\* C5: validating [{ticker, price}, {ticker}, {ticker, price}] returns all 3
\* records (the record lacking price is kept).
C5_TestInputKeepsAllThree ==
    (Validated /\ IsTestInput) => Len(valid_records) = 3

\* The indices of the input records whose key set contains the key set of
\* the first record.
SupersetIndices ==
    {k \in 1..Len(records) : DOMAIN records[1] \subseteq DOMAIN records[k]}

C8_ValidateIdempotent ==
    vpc = "revalidated" => revalidated = valid_records

C8_Witness ==
    /\ vpc = "revalidated"
    /\ Len(valid_records) >= 2
    /\ Len(valid_records) < Len(records)
    /\ revalidated = valid_records

(***************************************************************************)
(* Properties of _generate_in_batches, checked under Spec.                 *)
(***************************************************************************)
RECURSIVE ConcatOk(_)
\* The data of the successful batches of a log, concatenated in batch order.
ConcatOk(log) ==
    IF log = <<>> THEN <<>>
    ELSE LET last == log[Len(log)]
         IN  ConcatOk(SubSeq(log, 1, Len(log) - 1))
                \o (IF last.ok THEN last.data ELSE <<>>)

RECURSIVE SumAsked(_)
\* The sum of the records_in_batch values of a log.
SumAsked(log) ==
    IF log = <<>> THEN 0
    ELSE SumAsked(SubSeq(log, 1, Len(log) - 1)) + log[Len(log)].asked

\* The least n with n * size >= total.
CeilDiv(total, size) ==
    CHOOSE n \in 0..total : n * size >= total /\ (n - 1) * size < total

\* C1: whatever the batches' outcomes, _generate_in_batches does not raise,
\* runs every batch after a failed one, and returns exactly the records of
\* the successful batches in batch order (nothing when every batch fails).
C1_FailedBatchesAreSkipped ==
    /\ pc # "raised"
    /\ pc = "done" =>
         /\ Len(batch_log) = batches
         /\ all_records = ConcatOk(batch_log)
         /\ (\A k \in 1..Len(batch_log) : ~batch_log[k].ok) => all_records = <<>>

C1_Witness ==
    /\ pc = "done"
    /\ \E k, m \in 1..Len(batch_log) :
         /\ k < m
         /\ ~batch_log[k].ok
         /\ batch_log[k].error = "transport"
         /\ batch_log[m].ok
         /\ batch_log[m].data # <<>>
    /\ all_records # <<>>

\* C2: generate_json is invoked exactly ceil(total_records / batch_size)
\* times in a job, whatever the invocations return or raise.
C2_OneJsonCallPerBatch ==
    /\ json_calls <= CeilDiv(total_records, batch_size)
    /\ pc = "done" => json_calls = CeilDiv(total_records, batch_size)

C2_Witness ==
    /\ pc = "done"
    /\ total_records = 3
    /\ batch_size = 2
    /\ json_calls = 2
    /\ ~batch_log[1].ok

\* C3: the records_in_batch values requested over all batches of a job sum
\* to total_records exactly.
C3_AskedSumsToTotal ==
    pc = "done" => SumAsked(batch_log) = total_records

(***************************************************************************)
(* Properties of generate_text, checked under SpecClient.                  *)
(***************************************************************************)
RequestIdx == {k \in DOMAIN call_trace : call_trace[k].ev = "request"}

FailedIdx ==
    {k \in RequestIdx : call_trace[k].outcome \in {"exception", "empty"}}

CallEnded == pc = "idle" /\ calls > 0

\* C9: one generate_text call issues at most max_retries requests, returns
\* the text of the first attempt with non-empty text without a further
\* request, and raises exactly when all max_retries attempts failed.
C9_RetriesBoundedAndFirstTextReturned ==
    /\ Cardinality(RequestIdx) <= max_retries
    /\ pc = "request" => Cardinality(RequestIdx) < max_retries
    /\ \A k \in RequestIdx :
         call_trace[k].outcome = "text" =>
            /\ k = Len(call_trace)
            /\ pc = "idle"
            /\ call_result = TextResponse(call_trace[k].text)
    /\ CallEnded =>
         /\ call_result.kind \in {"text", "raise", "exhausted"}
         /\ call_result.kind \in {"raise", "exhausted"}
              <=> /\ Cardinality(RequestIdx) = max_retries
                  /\ FailedIdx = RequestIdx

C9_Witness ==
    /\ CallEnded
    /\ max_retries = 3
    /\ Cardinality(RequestIdx) = 2
    /\ call_trace[1].outcome = "exception"
    /\ call_result.kind = "text"

\* C10: within one generate_text call every failed attempt that is followed
\* by a retry is followed at once by a backoff wait of 2^attempt seconds, and
\* no backoff wait follows the final attempt.
C10_BackoffBeforeEveryRetry ==
    /\ \A k \in FailedIdx :
         (\E m \in RequestIdx : m > k) =>
            /\ call_trace[k + 1].ev = "backoff"
            /\ call_trace[k + 1].secs = 2 ^ call_trace[k].attempt
    /\ CallEnded /\ call_trace # <<>> =>
         call_trace[Len(call_trace)].ev # "backoff"

(***************************************************************************)
(* Properties of the rate gate, checked under SpecClient.                  *)
(***************************************************************************)
\* C11: over any sequence of generate_text calls on one client, any two
\* consecutive requests issued to the model are at least
\* 60 / requests_per_minute seconds apart.
C11_RequestsSpacedByMinInterval ==
    request_gap # -1 => request_gap >= MinInterval

(***************************************************************************)
(* Properties of generate_json, checked under Spec.                        *)
(***************************************************************************)
\* A text whose payload, fences aside, is a JSON object or array.
PayloadIsObjectOrArray(text) ==
    /\ text.wrap \in {"bare", "json_fence", "plain_fence"}
    /\ text.json \in {"object", "array"}

InvalidPayloadErrors ==
    {"ValueError: invalid JSON", "ValueError: unexpected JSON type"}

TransportErrors == {"transport", "Exception: failed after all retries"}

\* The batch whose generate_json call has just ended in a text from the model.
BatchEndedWithText ==
    /\ pc \in {"loop", "done"}
    /\ batch_log # <<>>
    /\ call_result.kind = "text"

\* C12: when the text the model returned is not a JSON object or array once
\* the code fences are stripped, generate_json raises an invalid-payload
\* ValueError, which is not the transport error, and the request is not sent
\* again: each generate_json call makes exactly one generate_text call, and
\* that call made no request after the one that returned the text.
C12_InvalidPayloadRaisesWithoutRetry ==
    /\ calls = json_calls
    /\ BatchEndedWithText =>
         LET last == batch_log[Len(batch_log)]
         IN  /\ PayloadIsObjectOrArray(call_result.text) => last.ok
             /\ ~PayloadIsObjectOrArray(call_result.text) =>
                   /\ ~last.ok
                   /\ last.error \in InvalidPayloadErrors
                   /\ last.error \notin TransportErrors
             /\ call_trace[Len(call_trace)].outcome = "text"
             /\ Cardinality({k \in DOMAIN call_trace :
                                call_trace[k].outcome = "text"}) = 1

C12_Witness ==
    /\ BatchEndedWithText
    /\ call_result.text.wrap = "json_fence"
    /\ call_result.text.json = "scalar"
    /\ batch_log[Len(batch_log)].error = "ValueError: unexpected JSON type"
    /\ Len(call_trace) > 1
    /\ calls = 2
    /\ json_calls = 2

(***************************************************************************)
(* Properties of the generator methods, checked under SpecGenerate.        *)
(***************************************************************************)
\* C13: for every dataset type of every generator and every batch of a job,
\* the prompt sent to the LLM asks for exactly records_in_batch records, not
\* for the job's total num_records.
C13_PromptAsksForRecordsInBatch ==
    \A k \in DOMAIN batch_log : batch_log[k].prompted = batch_log[k].asked

\* Every batch succeeded and returned as many records as it was asked for,
\* all records having one key set.
AllBatchesExact ==
    /\ Len(batch_log) = batches
    /\ \A k \in DOMAIN batch_log :
         /\ batch_log[k].ok
         /\ Len(batch_log[k].data) = batch_log[k].asked
    /\ \A k \in DOMAIN all_records :
         /\ IsDict(all_records[k])
         /\ DOMAIN all_records[k] = DOMAIN all_records[1]

\* The columns of a frame that came from the records.
DataColumns(frame) == frame.columns \cap Keys

\* C14: with num_records = 25 and batch_size = 10, when every batch succeeds
\* and returns exactly the requested number of records with one shared key
\* set, the batches request 10, 10 and 5 records and the assembled dataset
\* has exactly 25 rows, one row per validated record.
C14_ScenarioGivesTwentyFiveRows ==
    (total_records = 25 /\ batch_size = 10 /\ AllBatchesExact) =>
        /\ [k \in DOMAIN batch_log |-> batch_log[k].asked] = <<10, 10, 5>>
        /\ pc = "returned" =>
             /\ Len(df.rows) = 25
             /\ Len(ValidateRecords(all_records)) = 25
             /\ \A k \in 1..25 :
                  [col \in DataColumns(df) |-> df.rows[k][col]] = all_records[k]

C14_Witness ==
    /\ pc = "returned"
    /\ total_records = 25
    /\ batch_size = 10
    /\ AllBatchesExact
    /\ Len(df.rows) = 25
    /\ df.rows[25]["ticker"] = <<3, 5>>

\* C17: every dataset returned by any dataset-type method of any generator
\* carries the reserved columns _meta_is_synthetic, _meta_domain,
\* _generated_at and _generator, with _meta_is_synthetic true in every row;
\* the Banking customer-profiles dataset also carries _meta_pii_removed.
C17_ReturnedDatasetCarriesReservedColumns ==
    pc = "returned" =>
        /\ {"_meta_is_synthetic", "_meta_domain", "_generated_at", "_generator"}
              \subseteq df.columns
        /\ \A k \in DOMAIN df.rows : df.rows[k]["_meta_is_synthetic"] = TRUE
        /\ (method.generator = "Banking"
              /\ method.dataset_type = "Customer Profiles")
             => "_meta_pii_removed" \in df.columns

C17_Witness ==
    /\ pc = "returned"
    /\ method.generator = "Banking"
    /\ method.dataset_type = "Customer Profiles"
    /\ method.batch_size = 100
    /\ Len(df.rows) = 10
    /\ df.rows[10]["_meta_pii_removed"] = TRUE
    /\ df.rows[10]["_generator"] = "Banking"
    /\ "_meta_domain" \in df.columns

(***************************************************************************)
(* Properties of generate_dataset and of the start-up, checked under       *)
(* SpecApp.                                                                *)
(***************************************************************************)
\* generate_dataset got as far as running a generator method.
GenerationRan == method # NoMethod

\* Every batch of the job is over and every generate_json call failed in
\* the transport: no text came back from the model.
EveryCallFailed ==
    /\ GenerationRan
    /\ Len(batch_log) = batches
    /\ \A k \in DOMAIN batch_log :
         ~batch_log[k].ok /\ batch_log[k].error \in TransportErrors

\* The statuses generate_dataset gives to a malformed request.
MalformedStatuses == {SelectStatus, RangeStatus, NotImplementedStatus}

\* The domains and dataset types the interface offers together.
OfferedTogether(r) ==
    \/ r.domain = "Banking" /\ r.dataset_type = "Customer Profiles"
    \/ r.domain = "Private Equity" /\ r.dataset_type = "Valuations"

\* C15 (as stated): for a request with num_records = 5 in which every LLM
\* call fails, generate_dataset reports the 'no data produced' status, which
\* is not a status of a malformed request.
C15_FiveRecordsAllFailGivesNoData ==
    (/\ pc = "responded"
     /\ request.num_records = 5
     /\ OfferedTogether(request)
     /\ \A k \in DOMAIN batch_log : ~batch_log[k].ok)
        => /\ status = NoDataStatus
           /\ status \notin MalformedStatuses

\* C15 (amended): when every LLM call of a request that generate_dataset
\* accepts fails, the generator returns a dataset with 0 rows without
\* raising and generate_dataset reports 'no data produced', which is none of
\* the statuses of a malformed request; a request with num_records = 5 is
\* rejected as malformed before any LLM call.
C15_AllCallsFailGivesNoDataStatus ==
    /\ EveryCallFailed =>
         /\ pc # "generate_raised"
         /\ pc \in {"returned", "responded"} => Len(df.rows) = 0
         /\ pc = "responded" =>
              /\ status = NoDataStatus
              /\ status \notin MalformedStatuses
    /\ (pc = "responded" /\ request.num_records = 5) =>
         /\ status \in {SelectStatus, RangeStatus}
         /\ calls = 0
         /\ ~GenerationRan

C15_Witness ==
    /\ pc = "responded"
    /\ EveryCallFailed
    /\ request.num_records = 60
    /\ Len(batch_log) = 2
    /\ batch_log[1].error = "transport"
    /\ batch_log[2].error = "Exception: failed after all retries"
    /\ status = NoDataStatus

SupportedFormats == {"CSV", "JSON", "XML", "PARQUET", "EXCEL"}

\* The request was served with at least one row, but fewer than asked for.
ShortYield ==
    /\ pc = "responded"
    /\ GenerationRan
    /\ Len(df.rows) >= 1
    /\ Len(df.rows) < request.num_records

ReservedColumns(frame) == frame.columns \ Keys

\* C18: the preview returned by generate_dataset contains none of the
\* reserved metadata columns that add_metadata appended to the dataset (the
\* _meta_* columns, _generated_at and _generator) and has at most 100 rows.
C18_PreviewHasNoReservedColumn ==
    (pc = "responded" /\ status.level = "success") =>
        /\ preview.columns \cap ReservedColumns(df) = {}
        /\ Len(preview.rows) <= 100

\* A request generate_dataset must reject.
Malformed(r) ==
    \/ r.num_records < 10
    \/ r.num_records > MaxRecordsSetting
    \/ r.domain = ""
    \/ r.dataset_type = ""

\* C19: generate_dataset rejects a request whose num_records is below 10 or
\* above the configured maximum, or whose domain or dataset type is missing,
\* with an error status, and then issues no LLM request, computes no metrics
\* and writes no export file.
C19_MalformedRequestIsRejectedUnserved ==
    (request # NoRequest /\ Malformed(request)) =>
        /\ pc = "responded"
        /\ status.level = "error"
        /\ status \in {SelectStatus, RangeStatus}
        /\ ~GenerationRan
        /\ calls = 0
        /\ json_calls = 0
        /\ issued_at = -1
        /\ metrics = NoMetrics
        /\ exports = {}

C19_Witness ==
    /\ pc = "responded"
    /\ request.num_records = 100001
    /\ request.domain = "Banking"
    /\ request.dataset_type = "Customer Profiles"
    /\ status = RangeStatus
    /\ calls = 0

\* C20: when the API key is missing, start-up fails before any generator is
\* constructed: in no execution is an LLM request issued or a dataset
\* generated with a missing API key.
C20_NoGenerationWithoutApiKey ==
    api_key = "" =>
        /\ boot \in {"import", "failed"}
        /\ constructed = {}
        /\ request = NoRequest
        /\ pc = "idle"
        /\ calls = 0
        /\ issued_at = -1
        /\ ~GenerationRan
        /\ df = EmptyFrame

C20_Witness ==
    /\ api_key = ""
    /\ boot = "failed"
    /\ constructed = {}
    /\ calls = 0

(***************************************************************************)
(* Termination and the batch sizes of _generate_in_batches.                *)
(***************************************************************************)
\* C27: every _generate_in_batches job terminates: when each request
\* returns or raises, the job reaches its return statement, having made at
\* most ceil(total_records / batch_size) generate_json calls of at most 3
\* requests each, hence at most ceil(total_records / batch_size) * 3
\* requests, whatever the outcomes.
C27_JobTerminatesWithinRequestBudget ==
    /\ <>(pc = "done")
    /\ [](/\ json_calls <= CeilDiv(total_records, batch_size)
          /\ calls = json_calls
          /\ Cardinality(RequestIdx) <= DefaultMaxRetries
          /\ DefaultMaxRetries * (json_calls - 1) + Cardinality(RequestIdx)
               <= CeilDiv(total_records, batch_size) * 3)

\* A two-batch job whose every request failed: 3 requests in each batch.
C27_Witness ==
    /\ pc = "done"
    /\ batches = 2
    /\ json_calls = 2
    /\ Cardinality(RequestIdx) = 3
    /\ \A k \in DOMAIN batch_log :
         batch_log[k].error = "Exception: failed after all retries"

\* C28: in every batch of every job 1 <= records_in_batch <= batch_size,
\* whatever the earlier batches returned.
C28_RecordsInBatchWithinOneAndBatchSize ==
    /\ \A k \in DOMAIN batch_log :
         /\ 1 <= batch_log[k].asked
         /\ batch_log[k].asked <= batch_size
    /\ pc = "request" =>
         /\ 1 <= records_in_batch
         /\ records_in_batch <= batch_size

\* A batch handed generate a JSON array with an element that is no object.
OddBatches ==
    {k \in DOMAIN batch_log :
        /\ batch_log[k].ok
        /\ \E j \in DOMAIN batch_log[k].data : ~IsDict(batch_log[k].data[j])}

\* C29: no content of one batch response aborts the job: when a batch
\* returned valid JSON that is not an array of objects, generate still
\* returns a dataset, without raising.
C29_OddBatchDoesNotAbortGenerate ==
    (pc \in {"returned", "generate_raised"} /\ OddBatches # {}) =>
        pc = "returned"

(***************************************************************************)
(* Properties of DataExporter, checked under SpecExport.                   *)
(***************************************************************************)
\* The format names of the calls that name CSV, JSON, XML, Parquet or Excel
\* in some letter case, with the extension of the format.
ExpectedExtension ==
    ("csv" :> ".csv") @@ ("CSV" :> ".csv") @@ ("Json" :> ".json")
        @@ ("xml" :> ".xml") @@ ("Parquet" :> ".parquet")
        @@ ("EXCEL" :> ".xlsx") @@ ("excel" :> ".xlsx")

\* The lookup of the format has been made.
LookedUp == epc \notin {"idle", "export"}

\* C21: export with a format name that is not CSV, JSON, XML, Parquet or
\* Excel in some letter case raises at once and writes no file; with a
\* supported name in any letter case it raises no format error, and when
\* its writer returns, one file with the extension of the format has been
\* written and its path is returned.
C21_ExportWritesOneFileOrRaises ==
    LET c == export_call
    IN  /\ (LookedUp /\ c.format_type \notin DOMAIN ExpectedExtension) =>
             /\ epc \in {"raised", "crashed"}
             /\ epc = "raised" =>
                  StartsWith(export_result, "ValueError: Unsupported format")
             /\ written = <<>>
        /\ (LookedUp /\ c.format_type \in DOMAIN ExpectedExtension) =>
             /\ ~StartsWith(export_result, "ValueError: Unsupported format")
             /\ epc = "raised" => export_result = "writer error"
             /\ (c.op = "export" /\ epc = "returned") =>
                  LET name == c.filename \o ExpectedExtension[c.format_type]
                  IN  /\ written = <<File(name, TRUE)>>
                      /\ File(name, TRUE) \in files
                      /\ export_result = Path(name)

C21_Witness ==
    /\ epc = "returned"
    /\ export_call = [op |-> "export", filename |-> "data",
                      format_type |-> "Parquet"]
    /\ written = <<File("data.parquet", TRUE)>>
    /\ export_result = "output/data.parquet"
    /\ File("data.csv", TRUE) \in files

\* The positions of the files this call wrote under the given name.
WrittenAt(name) == {k \in DOMAIN written : written[k].name = name}

\* C22: in every execution of export_with_metadata, one that fails or is
\* killed at any step included, <filename>_metadata.json is written only
\* after the data file was written whole; a call with an unsupported format
\* writes neither file.
C22_MetadataOnlyAfterDataFile ==
    LET c == export_call
    IN  /\ \A k \in WrittenAt(MetadataName(c)) :
             LET name == c.filename \o ExpectedExtension[c.format_type]
             IN  /\ \E j \in 1..(k - 1) : written[j] = File(name, TRUE)
                 /\ File(name, TRUE) \in files
        /\ c.format_type \notin DOMAIN ExpectedExtension => written = <<>>

\* The call was killed with the data file written and no metadata file.
C22_Witness ==
    /\ epc = "crashed"
    /\ export_call = [op |-> "export_with_metadata", filename |-> "data",
                      format_type |-> "Json"]
    /\ written = <<File("data.json", TRUE)>>
    /\ files = {File("data.json", TRUE)}

(***************************************************************************)
(* Properties of MetricsCalculator, checked under SpecMetrics.             *)
(***************************************************************************)
\* The values of a column that are present.
Present(c) == {k \in 1..mdf.rows : ~mdf.cols[c].cells[k].null}

Missing(c) == {k \in 1..mdf.rows : mdf.cols[c].cells[k].null}

Abs(x) == IF x < 0 THEN -x ELSE x

\* pct, in hundredths of a percent, is 100 * part / total to two decimals.
IsPctOf(pct, part, total) == 2 * Abs(pct * total - 10000 * part) <= total

\* C23: calculate_completeness reports per column 100 * non_null / rows and
\* overall 100 * (total_cells - null_cells) / total_cells, to two decimals:
\* 0% for an all-null column and 100% for a column without nulls at any row
\* count from 1 up, and 0 for a dataset without cells.
C23_CompletenessIsShareOfNonNull ==
    mpc = "reported" =>
        LET columns == DOMAIN mdf.cols
            total_cells == mdf.rows * Cardinality(columns)
            nulls == SumOver(columns,
                             [c \in columns |-> Cardinality(Missing(c))])
            section == report.completeness
        IN  /\ \A c \in columns :
                 LET pct == section.by_column[c].completeness_pct
                 IN  /\ mdf.rows > 0 =>
                          IsPctOf(pct, Cardinality(Present(c)), mdf.rows)
                     /\ Present(c) = {} => pct = 0
                     /\ (mdf.rows >= 1 /\ Missing(c) = {}) => pct = 10000
            /\ total_cells > 0 =>
                 IsPctOf(section.overall_completeness_pct,
                         total_cells - nulls, total_cells)
            /\ total_cells = 0 => section.overall_completeness_pct = 0

C23_Witness ==
    /\ mpc = "reported"
    /\ mdf.rows = 3
    /\ DOMAIN mdf.cols = {"amount", "name"}
    /\ Cardinality(Present("amount")) = 2
    /\ Missing("name") = {}
    /\ report.completeness.by_column["amount"].completeness_pct = 6667
    /\ report.completeness.by_column["name"].completeness_pct = 10000
    /\ report.completeness.overall_completeness_pct = 8333

\* C24: in the report of calculate_all_metrics every column has an entry in
\* the completeness and in the uniqueness section; a column has an entry in
\* the distribution section exactly when it has a non-null value; a column
\* without one is reported with zero completeness.
C24_EveryColumnIsReported ==
    mpc = "reported" =>
        /\ DOMAIN report.completeness.by_column = DOMAIN mdf.cols
        /\ DOMAIN report.uniqueness.by_column = DOMAIN mdf.cols
        /\ DOMAIN report.distribution = {c \in DOMAIN mdf.cols : Present(c) # {}}
        /\ \A c \in DOMAIN mdf.cols :
             Present(c) = {} =>
                 report.completeness.by_column[c].completeness_pct = 0

C24_Witness ==
    /\ mpc = "reported"
    /\ mdf.rows = 2
    /\ DOMAIN mdf.cols = {"amount", "name"}
    /\ Present("amount") = {}
    /\ Present("name") = {2}
    /\ DOMAIN report.distribution = {"name"}
    /\ report.completeness.by_column["amount"].completeness_pct = 0

\* The numeric columns with a value.
NumericWithData ==
    {c \in DOMAIN mdf.cols :
        mdf.cols[c].dtype \in {"int64", "float64"} /\ Present(c) # {}}

ValuesOf(c) == {mdf.cols[c].cells[k].v : k \in Present(c)}

\* The present values of c with the value x.
Holding(c, x) == {k \in Present(c) : mdf.cols[c].cells[k].v = x}

AllEqual(c) == Cardinality(ValuesOf(c)) = 1

\* All values of c but one are equal.
AllButOneEqual(c) ==
    /\ Cardinality(ValuesOf(c)) = 2
    /\ \E x \in ValuesOf(c) : Cardinality(Holding(c, x)) = 1

OutlierCount(c) == report.validity.by_column[c].outlier_count

\* C25 as stated: a numeric column whose values are all equal has 0
\* outliers, and one where all values but one are equal has exactly 1.
C25_AllButOneEqualHasOneOutlier ==
    mpc = "reported" =>
        \A c \in NumericWithData :
            /\ AllEqual(c) => OutlierCount(c) = 0
            /\ AllButOneEqual(c) => OutlierCount(c) = 1

\* C25, amended: a numeric column whose values are all equal has 0
\* outliers; one where all values but one are equal has exactly 1 when it
\* holds five values or more, and none when it holds four or fewer, the
\* differing value then lying within the fences.
C25_OutliersBeyondTheFences ==
    mpc = "reported" =>
        \A c \in NumericWithData :
            /\ AllEqual(c) => OutlierCount(c) = 0
            /\ (AllButOneEqual(c) /\ Cardinality(Present(c)) >= 5) =>
                 OutlierCount(c) = 1
            /\ (AllButOneEqual(c) /\ Cardinality(Present(c)) <= 4) =>
                 OutlierCount(c) = 0

C25_Witness ==
    /\ mpc = "reported"
    /\ mdf.rows = 5
    /\ "amount" \in DOMAIN mdf.cols
    /\ Cardinality(Holding("amount", 1)) = 4
    /\ Cardinality(Holding("amount", 9)) = 1
    /\ OutlierCount("amount") = 1
    /\ report.validity.by_column["amount"].outlier_pct = 2000

OutlierFields == {"outlier_count", "outlier_pct"}

ValidityOf(c) == report.validity.by_column[c]

\* C26 as stated: every non-numeric column is reported with 100% validity
\* and without the outlier fields, every numeric column with a value with
\* both of them.
C26_NonNumericIsFullyValid ==
    mpc = "reported" =>
        \A c \in DOMAIN mdf.cols :
            /\ mdf.cols[c].dtype = "object" =>
                 /\ ValidityOf(c).valid_pct = 10000
                 /\ DOMAIN ValidityOf(c) \cap OutlierFields = {}
            /\ c \in NumericWithData =>
                 OutlierFields \subseteq DOMAIN ValidityOf(c)

\* C26, amended: a non-numeric column with a non-null value is reported
\* with 100% validity and without the outlier fields; a column without a
\* non-null value, numeric or not, with 0% validity and without them; a
\* numeric column with a non-null value with 100% validity and both fields.
C26_ValidityByDtypeAndData ==
    mpc = "reported" =>
        \A c \in DOMAIN mdf.cols :
            /\ (mdf.cols[c].dtype = "object" /\ Present(c) # {}) =>
                 /\ ValidityOf(c).valid_pct = 10000
                 /\ DOMAIN ValidityOf(c) \cap OutlierFields = {}
            /\ Present(c) = {} =>
                 /\ ValidityOf(c).valid_pct = 0
                 /\ DOMAIN ValidityOf(c) \cap OutlierFields = {}
            /\ c \in NumericWithData =>
                 /\ ValidityOf(c).valid_pct = 10000
                 /\ OutlierFields \subseteq DOMAIN ValidityOf(c)

C26_Witness ==
    /\ mpc = "reported"
    /\ mdf.rows = 2
    /\ DOMAIN mdf.cols = {"amount", "name"}
    /\ Present("name") = {}
    /\ Present("amount") = {1, 2}
    /\ ValidityOf("name") = [data_type |-> "object", valid_pct |-> 0]
    /\ OutlierFields \subseteq DOMAIN ValidityOf("amount")

(***************************************************************************)
(* Properties of the dashboard's LLM wrappers, checked under SpecService.  *)
(***************************************************************************)
\* The attempts that ended in a result, by wrapper.
Succeeds(fn, outcome) ==
    IF fn = "generate_llm_response"
    THEN outcome \in {"json", "json_fence", "plain_fence", "prose"}
    ELSE outcome \in {"json", "json_fence"}

FallbackValues ==
    {"LLM Client failed to initialize. Check API key.",
     "Analysis could not be generated due to a persistent API error.",
     "Analysis failed to generate after multiple retries.",
     "Analysis failed due to a critical setup error.",
     "None"}

\* C30: generate_llm_response and extract_structured_data never propagate
\* an exception and make at most max_retries requests per call: they
\* return the result of the first attempt that succeeds, and the fallback
\* (a failure message, or None, with no sources) once max_retries attempts
\* have failed.
C30_WrappersReturnResultOrFallback ==
    LET fn == service_call.fn
        n == Len(service_trace)
    IN  /\ spc # "raised"
        /\ n <= service_call.max_retries
        /\ \A k \in 1..(n - 1) : ~Succeeds(fn, service_trace[k])
        /\ (spc = "request" /\ n > 0) => ~Succeeds(fn, service_trace[n])
        /\ spc = "returned" =>
             IF n > 0 /\ Succeeds(fn, service_trace[n])
             THEN service_result.ok
             ELSE /\ ~service_result.ok
                  /\ service_result.value \in FallbackValues
                  /\ service_result.sources = <<>>
                  /\ fn = "extract_structured_data" =>
                       service_result.value = "None"
        /\ (n = service_call.max_retries /\ n > 0
              /\ ~Succeeds(fn, service_trace[n])) => spc = "returned"

C30_Witness ==
    /\ spc = "returned"
    /\ service_call.fn = "extract_structured_data"
    /\ service_call.max_retries = 3
    /\ service_trace = <<"APIError", "plain_fence", "no_text">>
    /\ service_result = [ok |-> FALSE, value |-> "None", sources |-> <<>>]

====
